---- MODULE Spec2Model ----
(***************************************************************************)
(* Model of src/src/constructors/full.c: igraph_full() and                 *)
(* igraph_full_citation().  One behaviour is one call of one of the two    *)
(* generators.  The edge vector, its capacity, the loop indices and the    *)
(* calls made to igraph_create() are the state.                            *)
(***************************************************************************)
EXTENDS Integers, Sequences, FiniteSets, TLC

(* ------------------------------ bounds --------------------------------- *)

\* largest vertex count tried where all size expressions are representable
MaxN == 4

\* most negative vertex count tried is -MaxNeg
MaxNeg == 2

\* at most this many allocation requests fail during one call
MaxAllocFail == 2

\* vertex counts tried where the size expressions leave the integer range
OvfMinN == 6

OvfMaxN == 9

(* ------------------- integer type of the vertex count ------------------ *)

\* width in bits of igraph_integer_t, scaled down
IntBits == 6

Pow2(k) == 2 ^ k

IntMax == Pow2(IntBits - 1) - 1

IntMin == -Pow2(IntBits - 1)

InRange(x) == IntMin <= x /\ x <= IntMax

\* two's complement wrap-around of x to IntBits bits
Wrap(x) == ((x - IntMin) % Pow2(IntBits)) + IntMin

\* a * b in igraph_integer_t.  Signed overflow is undefined: the build either
\* wraps the product or carries it in a wider register.
Mul(a, b) == IF InRange(a * b) THEN {a * b} ELSE {Wrap(a * b), a * b}

\* x / 2 in C: truncation toward zero
CDiv2(x) == IF x >= 0 THEN x \div 2 ELSE -((-x) \div 2)

(* ------------------------------- state --------------------------------- *)

VARIABLES
    fn,        \* which generator is called: "full" or "citation"
    n,         \* argument n
    directed,  \* argument directed
    loops,     \* argument loops (igraph_full only)
    pc,        \* position in the function body
    edges,     \* contents of the vector `edges' (its size is Len(edges))
    cap,       \* allocated capacity of `edges' in slots, 0 when no storage
    i,         \* local i
    j,         \* local j
    ptr,       \* local ptr (igraph_full_citation only)
    blk,       \* which inner loop of the directed && !loops branch runs
    ret,       \* returned error code, "none" while running
    graph,     \* *graph: <<>> while untouched, <<g>> once created
    calls,     \* arguments of every igraph_create() invocation so far
    sizeArg,   \* size handed to igraph_vector_reserve / igraph_vector_init
    reallocs,  \* reallocations performed inside igraph_vector_push_back
    fails,     \* allocation requests that failed so far
    emitted,   \* every value handed to igraph_vector_push_back, in call order
    oob        \* TRUE once a store went past the end of the vector

vars == <<fn, n, directed, loops, pc, edges, cap, i, j, ptr, blk, ret,
          graph, calls, sizeArg, reallocs, fails, emitted, oob>>

inputs == <<fn, n, directed, loops>>

(* --------------------------- igraph_vector ----------------------------- *)

\* may an allocation request fail now
MayFail == fails < MaxAllocFail

\* storage allocated by igraph_vector_init(v, size)
InitCap(size) == IF size > 0 THEN size ELSE 1

\* contents after igraph_vector_init(v, size): size zeroed slots
InitContents(size) == [k \in 1..(IF size > 0 THEN size ELSE 0) |-> 0]

\* capacity requested by igraph_vector_push_back when the vector is full
GrowCap(len) == IF len = 0 THEN 1 ELSE 2 * len

\* igraph_vector_push_back(&edges, e) with its return value dropped, as at
\* every call site in igraph_full; then control goes to `next'
PushBack(e, next) ==
    /\ pc' = next
    /\ emitted' = Append(emitted, e)
    /\ \/ /\ Len(edges) < cap
          /\ edges' = Append(edges, e)
          /\ UNCHANGED <<cap, reallocs, fails>>
       \/ /\ Len(edges) >= cap
          /\ edges' = Append(edges, e)
          /\ cap' = GrowCap(Len(edges))
          /\ reallocs' = reallocs + 1
          /\ UNCHANGED fails
       \/ /\ Len(edges) >= cap
          /\ MayFail
          /\ fails' = fails + 1
          /\ UNCHANGED <<edges, cap, reallocs>>

(* ---------------------------- igraph_create ---------------------------- *)

\* the edge list is a flat list of pairs of vertex ids in [0, nv)
ValidEdgeList(es, nv) ==
    /\ Len(es) % 2 = 0
    /\ \A k \in 1..Len(es) : 0 <= es[k] /\ es[k] < nv

\* IGRAPH_CHECK(igraph_create(graph, &edges, n, directed));
\* igraph_vector_destroy(&edges); IGRAPH_FINALLY_CLEAN(1); return 0;
Create ==
    /\ pc = "create"
    /\ calls' = Append(calls, [edges |-> edges, n |-> n, directed |-> directed])
    /\ \/ /\ ValidEdgeList(edges, n)
          /\ graph' = <<[edges |-> edges, n |-> n, directed |-> directed]>>
          /\ ret' = "OK"
       \/ /\ graph' = graph
          /\ ret' = "ECREATE"
    /\ edges' = <<>>
    /\ cap' = 0
    /\ pc' = "done"
    /\ UNCHANGED <<inputs, emitted, i, j, ptr, blk, sizeArg, reallocs, fails, oob>>

(* ----------------------------- igraph_full ----------------------------- *)

\* the check with the bound off by one
NegativeN_OffByOne(nn) == nn < -1

\* if (n < 0)
NegativeN(nn) == nn < 0

\* IGRAPH_ERROR("invalid number of vertices", IGRAPH_EINVAL) or fall through
FullCheckN ==
    /\ pc = "start" /\ fn = "full"
    /\ IF NegativeN(n)
          THEN pc' = "done" /\ ret' = "EINVAL"
          ELSE pc' = "vinit" /\ ret' = ret
    /\ UNCHANGED <<inputs, emitted, edges, cap, i, j, ptr, blk, graph, calls,
                   sizeArg, reallocs, fails, oob>>

\* IGRAPH_VECTOR_INIT_FINALLY(&edges, 0)
FullVectorInit ==
    /\ pc = "vinit"
    /\ \/ /\ cap' = InitCap(0)
          /\ edges' = InitContents(0)
          /\ pc' = "reserve"
          /\ UNCHANGED <<ret, fails>>
       \/ /\ MayFail
          /\ fails' = fails + 1
          /\ ret' = "ENOMEM"
          /\ pc' = "done"
          /\ UNCHANGED <<edges, cap>>
    /\ UNCHANGED <<inputs, emitted, i, j, ptr, blk, graph, calls, sizeArg, reallocs, oob>>

\* the argument of igraph_vector_reserve in the selected branch
ReserveSize(nn, d, l) ==
    IF d /\ l THEN Mul(nn, nn)
    ELSE IF d /\ ~l THEN Mul(nn, nn - 1)
    ELSE IF ~d /\ l THEN {CDiv2(m) : m \in Mul(nn, nn + 1)}
    ELSE {CDiv2(m) : m \in Mul(nn, nn - 1)}

\* IGRAPH_CHECK(igraph_vector_reserve(&edges, ...)); for (i = 0; ...
FullReserve ==
    /\ pc = "reserve"
    /\ \E s \in ReserveSize(n, directed, loops) :
          /\ sizeArg' = Append(sizeArg, s)
          /\ \/ /\ cap' = IF s > cap THEN s ELSE cap
                /\ i' = 0
                /\ pc' = "outer"
                /\ UNCHANGED <<edges, ret, fails>>
             \/ /\ s > cap
                /\ MayFail
                /\ fails' = fails + 1
                /\ ret' = "ENOMEM"
                /\ edges' = <<>>
                /\ cap' = 0
                /\ pc' = "done"
                /\ i' = i
    /\ UNCHANGED <<inputs, emitted, j, ptr, blk, graph, calls, reallocs, oob>>

\* the undirected, no-loops branch starting at j = i
FullJStart_FromI(d, l, ii) ==
    IF d THEN 0 ELSE ii

\* initial value of j in the (first) inner loop of the selected branch
FullJStart(d, l, ii) ==
    IF d THEN 0 ELSE IF l THEN ii ELSE ii + 1

\* the inner loops running while j <= n
FullJEnd_Inclusive(d, l, b, ii, nn) ==
    IF d /\ ~l /\ b = 1 THEN ii ELSE nn + 1

\* exclusive upper limit of j in inner loop b of the selected branch
FullJEnd(d, l, b, ii, nn) ==
    IF d /\ ~l /\ b = 1 THEN ii ELSE nn

\* for (i = 0; i < n; i++)
FullOuter ==
    /\ pc = "outer"
    /\ IF i < n
          THEN /\ j' = FullJStart(directed, loops, i)
               /\ blk' = 1
               /\ pc' = "inner"
          ELSE /\ pc' = "create"
               /\ UNCHANGED <<j, blk>>
    /\ UNCHANGED <<inputs, emitted, edges, cap, i, ptr, ret, graph, calls, sizeArg,
                   reallocs, fails, oob>>

\* for (j = ...; j < ...; j++), and the step from the first inner loop of
\* the directed && !loops branch to its second one
FullInner ==
    /\ pc = "inner"
    /\ IF j < FullJEnd(directed, loops, blk, i, n)
          THEN /\ pc' = "pushI"
               /\ UNCHANGED <<i, j, blk>>
          ELSE IF directed /\ ~loops /\ blk = 1
                  THEN /\ j' = i + 1
                       /\ blk' = 2
                       /\ pc' = "inner"
                       /\ i' = i
                  ELSE /\ i' = i + 1
                       /\ pc' = "outer"
                       /\ UNCHANGED <<j, blk>>
    /\ UNCHANGED <<inputs, emitted, edges, cap, ptr, ret, graph, calls, sizeArg,
                   reallocs, fails, oob>>

\* igraph_vector_push_back(&edges, i); /* reserved */
FullPushI ==
    /\ pc = "pushI"
    /\ PushBack(i, "pushJ")
    /\ UNCHANGED <<inputs, i, j, ptr, blk, ret, graph, calls, sizeArg, oob>>

\* igraph_vector_push_back(&edges, j); /* reserved */  and j++
FullPushJ ==
    /\ pc = "pushJ"
    /\ PushBack(j, "inner")
    /\ j' = j + 1
    /\ UNCHANGED <<inputs, i, ptr, blk, ret, graph, calls, sizeArg, oob>>

(* ------------------------- igraph_full_citation ------------------------ *)

\* the vector sized as for a full graph with loops
CitSize_Square(nn) == Mul(nn, nn)

\* the size given to IGRAPH_VECTOR_INIT_FINALLY
CitSize(nn) == Mul(nn, nn - 1)

\* initial value of i in the outer loop
CitIStart == 1

\* the inner loop running while j <= i
CitJEnd_Inclusive(ii) == ii + 1

\* exclusive upper limit of j in the inner loop
CitJEnd(ii) == ii

\* IGRAPH_VECTOR_INIT_FINALLY(&edges, n * (n - 1)); for (i = 1; ...
CitVectorInit ==
    /\ pc = "start" /\ fn = "citation"
    /\ \E s \in CitSize(n) :
          /\ sizeArg' = Append(sizeArg, s)
          /\ \/ /\ cap' = InitCap(s)
                /\ edges' = InitContents(s)
                /\ i' = CitIStart
                /\ pc' = "couter"
                /\ UNCHANGED <<ret, fails>>
             \/ /\ MayFail
                /\ fails' = fails + 1
                /\ ret' = "ENOMEM"
                /\ pc' = "done"
                /\ UNCHANGED <<edges, cap, i>>
    /\ UNCHANGED <<inputs, emitted, j, ptr, blk, graph, calls, reallocs, oob>>

\* for (i = 1; i < n; i++)
CitOuter ==
    /\ pc = "couter"
    /\ IF i < n
          THEN j' = 0 /\ pc' = "cinner"
          ELSE j' = j /\ pc' = "create"
    /\ UNCHANGED <<inputs, emitted, edges, cap, i, ptr, blk, ret, graph, calls,
                   sizeArg, reallocs, fails, oob>>

\* for (j = 0; j < i; j++)
CitInner ==
    /\ pc = "cinner"
    /\ IF j < CitJEnd(i)
          THEN pc' = "cwriteI" /\ i' = i
          ELSE pc' = "couter" /\ i' = i + 1
    /\ UNCHANGED <<inputs, emitted, edges, cap, j, ptr, blk, ret, graph, calls,
                   sizeArg, reallocs, fails, oob>>

\* VECTOR(edges)[ptr++] = e.  A store past the end of the vector is
\* undefined: the program dies, or runs on with the vector's size unchanged.
Store(e, next) ==
    /\ ptr' = ptr + 1
    /\ IF ptr < Len(edges)
          THEN /\ edges' = [edges EXCEPT ![ptr + 1] = e]
               /\ pc' = next
               /\ oob' = oob
          ELSE /\ edges' = edges
               /\ oob' = TRUE
               /\ pc' \in {next, "crashed"}

\* VECTOR(edges)[ptr++] = i;
CitWriteI ==
    /\ pc = "cwriteI"
    /\ Store(i, "cwriteJ")
    /\ UNCHANGED <<inputs, emitted, cap, i, j, blk, ret, graph, calls, sizeArg,
                   reallocs, fails>>

\* VECTOR(edges)[ptr++] = j;  and j++
CitWriteJ ==
    /\ pc = "cwriteJ"
    /\ Store(j, "cinner")
    /\ j' = j + 1
    /\ UNCHANGED <<inputs, emitted, cap, i, blk, ret, graph, calls, sizeArg,
                   reallocs, fails>>

(* --------------------------- specifications ---------------------------- *)

\* state at the entry of a call with vertex count taken from ns
Entry(ns) ==
    /\ fn \in {"full", "citation"}
    /\ n \in ns
    /\ directed \in BOOLEAN
    /\ loops \in BOOLEAN
    /\ fn = "citation" => loops = FALSE
    /\ pc = "start"
    /\ edges = <<>>
    /\ cap = 0
    /\ i = 0
    /\ j = 0
    /\ ptr = 0
    /\ blk = 1
    /\ ret = "none"
    /\ graph = <<>>
    /\ calls = <<>>
    /\ sizeArg = <<>>
    /\ reallocs = 0
    /\ fails = 0
    /\ emitted = <<>>
    /\ oob = FALSE

Init == Entry((-MaxNeg)..MaxN)

InitOvf == Entry(((-MaxNeg)..MaxN) \cup (OvfMinN..OvfMaxN))

Next ==
    \/ FullCheckN
    \/ FullVectorInit
    \/ FullReserve
    \/ FullOuter
    \/ FullInner
    \/ FullPushI
    \/ FullPushJ
    \/ CitVectorInit
    \/ CitOuter
    \/ CitInner
    \/ CitWriteI
    \/ CitWriteJ
    \/ Create

\* calls whose size expressions are representable in igraph_integer_t
Spec == Init /\ [][Next]_vars

\* the same calls and calls whose size expressions overflow
SpecOvf == InitOvf /\ [][Next]_vars

(* ------------------ what the generators are to produce ------------------ *)

\* does the policy selected by (d, l) admit the pair (a, b)
Admitted(d, l, a, b) ==
    IF d /\ l THEN TRUE
    ELSE IF d /\ ~l THEN a # b
    ELSE IF ~d /\ l THEN b >= a
    ELSE b > a

\* all pairs over [0, nn) in lexicographic order
LexPairs(nn) ==
    IF nn <= 0 THEN <<>>
    ELSE [k \in 1..(nn * nn) |-> <<(k - 1) \div nn, (k - 1) % nn>>]

\* the admitted pairs of a policy, in lexicographic order
PolicyPairs(nn, d, l) ==
    SelectSeq(LexPairs(nn), LAMBDA p : Admitted(d, l, p[1], p[2]))

\* the pairs (a, b) with b < a, in lexicographic order
CitationPairs(nn) == SelectSeq(LexPairs(nn), LAMBDA p : p[2] < p[1])

\* a sequence of pairs as a flat list of vertex ids
Flat(ps) ==
    [k \in 1..(2 * Len(ps)) |-> ps[(k + 1) \div 2][IF k % 2 = 1 THEN 1 ELSE 2]]

\* closed-form number of edges of a policy
ClosedForm(nn, d, l) ==
    IF d /\ l THEN nn * nn
    ELSE IF d /\ ~l THEN nn * (nn - 1)
    ELSE IF ~d /\ l THEN (nn * (nn + 1)) \div 2
    ELSE (nn * (nn - 1)) \div 2

\* number of edges in a flat list
EdgeCount(es) == Len(es) \div 2

\* the call failed with an error code
Failed == ret \in {"EINVAL", "ENOMEM", "ECREATE"}

(* -------------------------------- claims -------------------------------- *)

\* C1: a successful igraph_full call with n >= 0 hands igraph_create an edge
\* list whose number of edges is the closed-form count of the selected
\* variant, and n = 0 gives an empty list and no error from the generator.
C1_EdgeCountIsClosedForm ==
    (fn = "full" /\ n >= 0 /\ ret = "OK") =>
        /\ Len(calls) = 1
        /\ Len(calls[1].edges) = 2 * ClosedForm(n, directed, loops)

\* C2: the values igraph_full emits through igraph_vector_push_back are, pair
\* by pair, the pairs admitted by the selected policy, each once, in
\* lexicographic order: a prefix of that enumeration while the loops run and
\* the whole of it once they have ended.
C2_EmittedInLexOrder ==
    (fn = "full" /\ n >= 0) =>
        LET want == Flat(PolicyPairs(n, directed, loops))
        IN  /\ Len(emitted) <= Len(want)
            /\ emitted = SubSeq(want, 1, Len(emitted))
            /\ (pc = "create" \/ calls # <<>>) => emitted = want

\* C2 witness: the loops of the directed, no-loops branch have ended for n = 3
C2_Witness ==
    /\ fn = "full" /\ n = 3 /\ directed /\ ~loops
    /\ pc = "create"
    /\ Len(emitted) = 12

\* C3 as stated: igraph_full_citation produces n*(n-1) edges, none a self-loop
C3_CitationCountAsStated ==
    (fn = "citation" /\ n >= 0 /\ calls # <<>>) =>
        /\ EdgeCount(calls[1].edges) = n * (n - 1)
        /\ \A k \in 1..EdgeCount(calls[1].edges) :
              calls[1].edges[2 * k - 1] > calls[1].edges[2 * k]

\* C3 amended: for n >= 0 igraph_full_citation produces n*(n-1)/2 edges, in
\* n*(n-1) vector slots, and every one of them (i,j) has i > j.
C3_CitationCountHalved ==
    (fn = "citation" /\ n >= 0 /\ calls # <<>>) =>
        /\ 2 * EdgeCount(calls[1].edges) = n * (n - 1)
        /\ Len(calls[1].edges) = n * (n - 1)
        /\ \A k \in 1..EdgeCount(calls[1].edges) :
              calls[1].edges[2 * k - 1] > calls[1].edges[2 * k]

\* C3 witness: a citation graph on three or more vertices has been created
C3_Witness ==
    /\ fn = "citation" /\ n >= 3
    /\ ret = "OK"
    /\ graph # <<>>
    /\ EdgeCount(graph[1].edges) >= 3

\* C4: for n >= 0 the list igraph_full_citation hands to igraph_create is the
\* pairs (i,j) with 0 <= j < i < n, each once, in increasing i and for fixed
\* i increasing j, and nothing else; empty for n = 0 and n = 1.
C4_CitationExactSequence ==
    (fn = "citation" /\ n >= 0 /\ calls # <<>>) =>
        /\ calls[1].edges = Flat(CitationPairs(n))
        /\ n <= 1 => calls[1].edges = <<>>
        /\ n = 4 => calls[1].edges = <<1, 0, 2, 0, 2, 1, 3, 0, 3, 1, 3, 2>>

\* C4 witness: the list for n = 4 has been handed over
C4_Witness ==
    /\ fn = "citation" /\ n = 4
    /\ Len(calls) = 1
    /\ Len(calls[1].edges) = 12

\* C5: for n >= 0, in both generators, every vertex id in a list handed to
\* igraph_create lies in [0, n); igraph_create is invoked at most once, and
\* exactly once in a successful call, with vertex count n and the caller's
\* directed flag.
C5_IdsInRangeOneCreate ==
    n >= 0 =>
        /\ Len(calls) <= 1
        /\ \A c \in 1..Len(calls) :
              /\ calls[c].n = n
              /\ calls[c].directed = directed
              /\ \A k \in 1..Len(calls[c].edges) :
                    0 <= calls[c].edges[k] /\ calls[c].edges[k] < n
        /\ ret = "OK" => Len(calls) = 1

\* C5 witness: a successful igraph_full call that handed over vertex n - 1
C5_Witness ==
    /\ fn = "full" /\ n >= 2
    /\ ret = "OK"
    /\ Len(calls) = 1
    /\ \E k \in 1..Len(calls[1].edges) : calls[1].edges[k] = n - 1

\* C6: igraph_full with n < 0 fails with IGRAPH_EINVAL before anything else:
\* no vector, no emitted edge, no igraph_create, graph untouched.
C6_NegativeNRejectedFirst ==
    (fn = "full" /\ n < 0) =>
        /\ pc \in {"start", "done"}
        /\ pc = "done" => ret = "EINVAL"
        /\ cap = 0 /\ edges = <<>> /\ sizeArg = <<>>
        /\ emitted = <<>>
        /\ calls = <<>>
        /\ graph = <<>>

\* C6 witness: igraph_full has returned IGRAPH_EINVAL for a negative n
C6_Witness ==
    fn = "full" /\ n < 0 /\ pc = "done" /\ ret = "EINVAL"

\* C7: igraph_full_citation with n < 0 fails with IGRAPH_EINVAL without
\* allocating the n*(n-1) slots and without invoking igraph_create.
C7_CitationNegativeNRejected ==
    (fn = "citation" /\ n < 0) =>
        /\ cap = 0 /\ sizeArg = <<>>
        /\ calls = <<>>
        /\ pc = "done" => ret = "EINVAL"

\* C8: in igraph_full the capacity given to the reserve call equals the slots
\* the loops append, so the vector never grows past it and no push_back
\* reallocates.
C8_ReserveCoversAppends ==
    (fn = "full" /\ sizeArg # <<>>) =>
        /\ reallocs = 0
        /\ Len(edges) <= sizeArg[1]
        /\ pc = "create" => Len(emitted) = sizeArg[1]

\* C9: in either generator with n >= 0, a call in which a step failed returns
\* an error and produces no graph, and igraph_create is only ever handed the
\* complete enumeration of the selected policy.
C9_NoPartialListOnFailure ==
    n >= 0 =>
        /\ (pc = "done" /\ fails > 0) => (Failed /\ graph = <<>>)
        /\ Failed => graph = <<>>
        /\ \A c \in 1..Len(calls) :
              calls[c].edges =
                 IF fn = "full" THEN Flat(PolicyPairs(n, directed, loops))
                                ELSE Flat(CitationPairs(n))

\* the size expression of the call evaluated in the integers
ExactSize ==
    IF fn = "full" THEN ClosedForm(n, directed, loops) ELSE n * (n - 1)

\* C10: for every representable n >= 0 the size expression reaches the vector
\* with its mathematical value, or the call reports an error; it is never
\* wrapped into a wrong size.
C10_SizeNeverWrapped ==
    (n >= 0 /\ sizeArg # <<>>) => (sizeArg[1] = ExactSize \/ Failed)

====
